---- MODULE Spec2Model ----
(***************************************************************************)
(* Model of the permission-triple pipeline:                                *)
(*   permission_triple_generator.py  (database -> triples -> text file)    *)
(*   consistency_visualization.py    (text file -> records -> metrics)     *)
(*   permission_visual_analysis.py   (text file -> records -> analyses)    *)
(*                                                                         *)
(* Strings of the source that are not ASCII are written in ASCII here:     *)
(*   "channel1"/"channel2"/"channel3" are the three channel names of       *)
(*   CHANNELS (src/permission_triple_generator.py:98-102).                 *)
(***************************************************************************)
EXTENDS Integers, Sequences, FiniteSets, TLC

VARIABLES
    pc,         \* position of the script that is running
    app_data,   \* analyze_permissions: the application record analysed
    db,         \* main: contents of app_database.json
    results,    \* the generator's list of (app_info, channel, permission, status)
    outFile,    \* permission_triples.txt: whether it exists, and its lines
    file,       \* load_triple_data: the lines of the file read
    apps_data,  \* the records returned by load_triple_data
    metrics     \* what calculate_metrics / the analyses returned

vars == <<pc, app_data, db, results, outFile, file, apps_data, metrics>>

None == [kind |-> "none"]
NoFile == [exists |-> FALSE, lines |-> <<>>]

(***************************************************************************)
(* Bounds of the model.                                                    *)
(***************************************************************************)
MaxItems == 2       \* longest list-valued channel field

(***************************************************************************)
(* permission_triple_generator.py: the fixed tables.                       *)
(***************************************************************************)
PERMISSION_MAPPING ==
    [Location |-> {"Location", "Geolocation", "GPS", "Place", "Address",
                   "Coordinates"},
     Contacts |-> {"Contacts", "Address Book", "People", "Phonebook",
                   "Contact List", "Contact Details"},
     Phone |-> {"Device or other IDs", "IMEI", "SIM Serial", "Phone Number",
                "Line 1 Number", "Network Country ISO", "Network Operator",
                "Subscriber ID", "Wi-Fi connection information",
                "Bluetooth MAC Address", "Cellular Network Info",
                "Phone Calls", "Call Log", "Call History", "Personal info",
                "App activity", "App info and performance"},
     SMS |-> {"Messages", "SMS", "MMS", "Text Messages", "Call Log",
              "Call History", "SMS/MMS"},
     Storage |-> {"Photos and videos", "Files and docs", "Photos/Media/Files",
                  "Document Files", "Media Files", "Internal Storage",
                  "External Storage", "SD Card Access", "Storage",
                  "Financial info", "Audio files", "Web browsing"},
     Camera |-> {"Photos and videos", "Camera", "Take Photos", "Take Videos",
                 "Camera Metadata", "Image Capture", "Video Capture",
                 "Camera Access"},
     Microphone |-> {"Audio", "Microphone", "Voice Recording", "Sound Input",
                     "Audio Capture", "Microphone Access"},
     Calendar |-> {"Calendar", "Events", "Reminders", "Calendar Events",
                   "Calendar Access", "Calendar Data"},
     Sensors |-> {"Sensors", "Sensor Data", "Accelerometer", "Gyroscope",
                  "Magnetometer", "Light Sensor", "Proximity Sensor",
                  "Barometer", "Humidity Sensor", "Temperature Sensor",
                  "Sensor Access", "Health and fitness"}]

\* list(PERMISSION_MAPPING.keys()): the nine categories in insertion order.
PERMISSION_CATEGORIES ==
    <<"Location", "Contacts", "Phone", "SMS", "Storage", "Camera",
      "Microphone", "Calendar", "Sensors">>

Categories == {PERMISSION_CATEGORIES[i] : i \in DOMAIN PERMISSION_CATEGORIES}

\* REVERSE_MAPPING[item], as a set; {} when the item is no key of it.
REVERSE_MAPPING(item) == {c \in Categories : item \in PERMISSION_MAPPING[c]}

\* CHANNELS: (field of the record, channel name), in insertion order.
CHANNELS ==
    <<[field |-> "data_collected", name |-> "channel1"],
      [field |-> "permission", name |-> "channel2"],
      [field |-> "security_practices", name |-> "channel3"]>>

ChannelNames == {CHANNELS[i].name : i \in DOMAIN CHANNELS}

\* 'sensors' in item.lower() or 'sensor' in item.lower(): the test is reached
\* only by strings that are no key of the table; SensorLike holds those of
\* the model's raw strings that contain "sensor".
SensorLike == {"Motion sensors"}

ContainsSensor(item) == item \in SensorLike

map_single_item(item) ==
    IF REVERSE_MAPPING(item) # {} THEN REVERSE_MAPPING(item)
    ELSE IF item = "App info and performance" THEN {}
    ELSE IF ContainsSensor(item) THEN {"Sensors"}
    ELSE {}

(***************************************************************************)
(* analyze_permissions.                                                    *)
(***************************************************************************)
Absent == [kind |-> "absent", items |-> <<>>]
ListField(s) == [kind |-> "list", items |-> s]
ScalarField(v) == [kind |-> "scalar", items |-> <<v>>]

\* app_data.get(key, 'unknown')
GetOrUnknown(v) == IF v = "" THEN "unknown" ELSE v

AppInfo(app) ==
    [app_name |-> GetOrUnknown(app.name),
     app_id |-> GetOrUnknown(app.id),
     genre |-> GetOrUnknown(app.genre)]

Result(info, channel, cat, status) ==
    [app_info |-> info, channel |-> channel, permission |-> cat,
     status |-> status]

\* Mutant of ItemStep: the status follows the last item alone.
ItemStepLastOnly(st, item) ==
    LET cats == map_single_item(item) IN
    [status |-> [c \in Categories |-> IF c \in cats THEN 1 ELSE 0],
     conflict |-> st.conflict]

\* One pass of the body of "for item in field_value" (lines 170-180).
ItemStep(st, item) ==
    LET cats == map_single_item(item) IN
    [status |-> [c \in Categories |->
                    IF c \in cats /\ st.status[c] = 0 THEN 1
                    ELSE st.status[c]],
     conflict |-> [c \in Categories |->
                    IF c \in cats /\ st.status[c] # 0 /\ st.status[c] = -1
                    THEN TRUE ELSE st.conflict[c]]]

RECURSIVE ItemLoop(_, _)
ItemLoop(st, items) ==
    IF items = <<>> THEN st
    ELSE ItemLoop(ItemStep(st, Head(items)), Tail(items))

\* permission_status and has_conflict as initialised at lines 153-155.
InitialStatus ==
    [status |-> [c \in Categories |-> 0],
     conflict |-> [c \in Categories |-> FALSE]]

\* The triples of a list-valued field (lines 167-187).
ListTriples(info, channel, items) ==
    LET st == ItemLoop(InitialStatus, items) IN
    [i \in DOMAIN PERMISSION_CATEGORIES |->
        LET cat == PERMISSION_CATEGORIES[i] IN
        IF st.conflict[cat] THEN Result(info, channel, cat, -1)
        ELSE Result(info, channel, cat, st.status[cat])]

\* The members of a set of categories as a sequence: the iteration order of a
\* Python set of strings is not fixed; rev chooses between the two orders a
\* set of at most two categories has.
RECURSIVE InOrder(_, _)
InOrder(S, cats) ==
    IF cats = <<>> THEN <<>>
    ELSE IF Head(cats) \in S THEN <<Head(cats)>> \o InOrder(S, Tail(cats))
    ELSE InOrder(S, Tail(cats))

Reverse(s) == [i \in 1..Len(s) |-> s[Len(s) + 1 - i]]

SetOrder(S, rev) ==
    IF rev THEN Reverse(InOrder(S, PERMISSION_CATEGORIES))
    ELSE InOrder(S, PERMISSION_CATEGORIES)

\* Mutant of ScalarTriples: the loop of lines 194-196 without its test
\* "if cat not in categories".
ScalarTriplesUnfiltered(info, channel, value, rev) ==
    LET categories == map_single_item(value)
        hit == SetOrder(categories, rev)
    IN  [i \in 1..Len(hit) |-> Result(info, channel, hit[i], 1)]
        \o [i \in DOMAIN PERMISSION_CATEGORIES |->
               Result(info, channel, PERMISSION_CATEGORIES[i], 0)]

\* The triples of a scalar field (lines 188-196).
ScalarTriples(info, channel, value, rev) ==
    LET categories == map_single_item(value)
        hit == SetOrder(categories, rev)
        miss == InOrder(Categories \ categories, PERMISSION_CATEGORIES)
    IN  [i \in 1..Len(hit) |-> Result(info, channel, hit[i], 1)]
        \o [i \in 1..Len(miss) |-> Result(info, channel, miss[i], 0)]

\* The triples of an absent field (lines 158-162).
AbsentTriples(info, channel) ==
    [i \in DOMAIN PERMISSION_CATEGORIES |->
        Result(info, channel, PERMISSION_CATEGORIES[i], 0)]

ChannelTriples(app, ch, rev) ==
    LET info == AppInfo(app)
        fv == app.fields[ch.field]
    IN  IF fv.kind = "absent" THEN AbsentTriples(info, ch.name)
        ELSE IF fv.kind = "list" THEN ListTriples(info, ch.name, fv.items)
        ELSE ScalarTriples(info, ch.name, fv.items[1], rev)

analyze_permissions(app, rev) ==
    ChannelTriples(app, CHANNELS[1], rev)
    \o ChannelTriples(app, CHANNELS[2], rev)
    \o ChannelTriples(app, CHANNELS[3], rev)

(***************************************************************************)
(* Inputs of analyze_permissions.                                          *)
(***************************************************************************)
\* Raw items: one key of Phone alone, one key of Phone and SMS, one string
\* that is no key and holds "sensor", one string that maps to nothing.
RawItems == {"IMEI", "Call Log", "Motion sensors", "Weather"}

RECURSIVE SeqsUpTo(_, _)
SeqsUpTo(S, n) ==
    IF n = 0 THEN {<<>>}
    ELSE LET shorter == SeqsUpTo(S, n - 1) IN
         shorter \cup {Append(s, x) : s \in {t \in shorter : Len(t) = n - 1},
                                      x \in S}

FieldValues ==
    {Absent} \cup {ScalarField(v) : v \in RawItems}
             \cup {ListField(s) : s \in SeqsUpTo(RawItems, MaxItems)}

\* Field values of at most one item.
ShortFieldValues == {v \in FieldValues : Len(v.items) <= 1}

\* The three channel fields of a record: any one of them holds any value of
\* FieldValues, the other two a value of at most one item.
AppFields ==
    LET Values(k, long) == IF k = long THEN FieldValues ELSE ShortFieldValues
    IN  UNION {[data_collected : Values("data_collected", long),
                permission : Values("permission", long),
                security_practices : Values("security_practices", long)] :
                  long \in {"data_collected", "permission",
                            "security_practices"}}

\* name, id, genre: "" stands for a record without that key.
AppRecords ==
    {[name |-> n, id |-> "1", genre |-> "Game", fields |-> f] :
        n \in {"", "A"}, f \in AppFields}

(***************************************************************************)
(* Specification of one call of analyze_permissions.                       *)
(***************************************************************************)
InitAnalyze ==
    /\ pc = "analyze"
    /\ app_data \in AppRecords
    /\ db = None
    /\ results = <<>>
    /\ outFile = NoFile
    /\ file = <<>>
    /\ apps_data = <<>>
    /\ metrics = None

Analyze ==
    /\ pc = "analyze"
    /\ \E rev \in BOOLEAN : results' = analyze_permissions(app_data, rev)
    /\ pc' = "analyzed"
    /\ UNCHANGED <<app_data, db, outFile, file, apps_data, metrics>>

NextAnalyze == Analyze

SpecAnalyze == InitAnalyze /\ [][NextAnalyze]_vars

(***************************************************************************)
(* The triples file.  A line is modelled by what the reader tests on it:   *)
(* tag is the prefix line.strip() starts with ("name", "id", "genre",      *)
(* "marker", "sep"), "blank" for a line that strips to nothing and "other" *)
(* for the rest; text is what follows the prefix; fields is                *)
(* line.split(',') of an "other" line.                                     *)
(***************************************************************************)
NameLine(n) == [tag |-> "name", text |-> n, fields |-> <<>>]
IdLine(i) == [tag |-> "id", text |-> i, fields |-> <<>>]
GenreLine(g) == [tag |-> "genre", text |-> g, fields |-> <<>>]
MarkerLine == [tag |-> "marker", text |-> "", fields |-> <<>>]
SepLine == [tag |-> "sep", text |-> "", fields |-> <<>>]
BlankLine == [tag |-> "blank", text |-> "", fields |-> <<>>]
OtherLine(fs) == [tag |-> "other", text |-> "", fields |-> fs]

\* The CSV header save_results writes: six names separated by commas.
HeaderLine ==
    OtherLine(<<"h_app_name", "h_app_id", "h_genre", "h_channel",
                "h_permission", "h_status">>)

\* Texts of the model that contain a comma.
CommaTexts == {"A, Inc"}

\* ',' in line
HasComma(line) ==
    IF line.tag = "other" THEN Len(line.fields) > 1
    ELSE line.text \in CommaTexts

\* str(status) of the f-string at line 246.
IntToStr(n) ==
    CASE n = -1 -> "-1"
      [] n = 0 -> "0"
      [] n = 1 -> "1"
      [] n = 2 -> "2"

\* int(status): the tokens int() accepts, with their values (" 1" stands for
\* a number with blanks around it); every other token raises ValueError.
IntTokens == {"-1", "0", "1", "2", " 1"}

ParseInt(tok) ==
    CASE tok = "-1" -> -1
      [] tok = "0" -> 0
      [] tok \in {"1", " 1"} -> 1
      [] tok = "2" -> 2

\* .strip() of the text after a prefix.
Strip(t) == IF t = " A" THEN "A" ELSE t

(***************************************************************************)
(* save_results (src/permission_triple_generator.py:219-251).              *)
(***************************************************************************)
\* The keys of app_results in insertion order: the app_info of the results
\* that are the first of their key (lines 226-232).
AppKeys(rs) ==
    LET IsFirst(i) == \A j \in 1..(i - 1) : rs[j].app_info # rs[i].app_info
        firsts == SelectSeq([i \in DOMAIN rs |-> i], IsFirst)
    IN  [n \in DOMAIN firsts |-> rs[firsts[n]].app_info]

\* app_results[app_key]: the results of that key, in order.
GroupOf(rs, k) ==
    LET HasKey(r) == r.app_info = k IN SelectSeq(rs, HasKey)

TripleLine(r) == OtherLine(<<r.channel, r.permission, IntToStr(r.status)>>)

AppBlock(k, group, last) ==
    <<NameLine(k.app_name), IdLine(k.app_id), GenreLine(k.genre), MarkerLine>>
    \o [i \in 1..Len(group) |-> TripleLine(group[i])]
    \o (IF last THEN <<>> ELSE <<SepLine>>)

RECURSIVE Blocks(_, _, _)
Blocks(rs, keys, idx) ==
    IF idx > Len(keys) THEN <<>>
    ELSE AppBlock(keys[idx], GroupOf(rs, keys[idx]), ~(idx < Len(keys)))
         \o Blocks(rs, keys, idx + 1)

save_results(rs) ==
    [exists |-> TRUE,
     lines |-> <<HeaderLine>> \o Blocks(rs, AppKeys(rs), 1)]

(***************************************************************************)
(* load_triple_data (src/consistency_visualization.py:14-80; the copy in   *)
(* src/permission_visual_analysis.py:41-106 is the same code).             *)
(***************************************************************************)
\* current_app: a dict; keys are the keys it holds ({} is the empty dict).
EmptyDict == [keys |-> {}, app_name |-> "", app_id |-> "", genre |-> ""]

NewApp(n) ==
    [keys |-> {"app_name", "app_id", "genre"}, app_name |-> n,
     app_id |-> "", genre |-> ""]

\* current_app['triples'] = triples
WithTriples(cur, ts) ==
    [keys |-> cur.keys \cup {"triples"}, app_name |-> cur.app_name,
     app_id |-> cur.app_id, genre |-> cur.genre, triples |-> ts]

\* "if current_app and triples"
ToSave(st) == st.current_app.keys # {} /\ st.triples # <<>>

ParsedTriple(fs) ==
    [channel |-> fs[1], permission |-> fs[2], status |-> ParseInt(fs[3])]

\* The body of "for line in lines" (lines 29-73).
LineStep(st, line) ==
    CASE line.tag = "blank" -> st
      [] line.tag = "name" ->
            [apps_data |-> IF ToSave(st)
                           THEN Append(st.apps_data,
                                       WithTriples(st.current_app, st.triples))
                           ELSE st.apps_data,
             current_app |-> NewApp(Strip(line.text)),
             triples |-> IF ToSave(st) THEN <<>> ELSE st.triples]
      [] line.tag = "id" ->
            [st EXCEPT !.current_app =
                [@ EXCEPT !.keys = @ \cup {"app_id"},
                          !.app_id = Strip(line.text)]]
      [] line.tag = "genre" ->
            [st EXCEPT !.current_app =
                [@ EXCEPT !.keys = @ \cup {"genre"},
                          !.genre = Strip(line.text)]]
      [] line.tag = "marker" -> st
      [] line.tag = "sep" ->
            IF ToSave(st)
            THEN [apps_data |-> Append(st.apps_data,
                                       WithTriples(st.current_app, st.triples)),
                  current_app |-> EmptyDict,
                  triples |-> <<>>]
            ELSE st
      [] line.tag = "other" ->
            IF /\ HasComma(line)
               /\ Len(line.fields) = 3
               /\ line.fields[3] \in IntTokens
            THEN [st EXCEPT !.triples = Append(@, ParsedTriple(line.fields))]
            ELSE st

\* "for line in lines": the iterator it holds the reader's state and the
\* lines still to read.
RECURSIVE LineLoop(_)
LineLoop(it) ==
    IF it.rest = <<>> THEN it.state
    ELSE LineLoop([state |-> LineStep(it.state, Head(it.rest)),
                   rest |-> Tail(it.rest)])

\* Lines 25-27: the first line is taken for the header when it has a comma.
SkipHeader(ls) ==
    IF ls # <<>> /\ HasComma(ls[1]) THEN Tail(ls) ELSE ls

load_triple_data(ls) ==
    LET st == LineLoop([state |-> [apps_data |-> <<>>,
                                   current_app |-> EmptyDict,
                                   triples |-> <<>>],
                        rest |-> SkipHeader(ls)])
    IN  IF ToSave(st)
        THEN Append(st.apps_data, WithTriples(st.current_app, st.triples))
        ELSE st.apps_data

(***************************************************************************)
(* main of the generator, then a reading script (lines 201-216, 254-267).  *)
(***************************************************************************)
MaxDbApps == 2      \* most application records in app_database.json

\* json.load of the file, or [] when it is missing or no JSON (128-138).
load_json_data(d) == IF d.kind = "json" THEN d.apps ELSE <<>>

RECURSIVE AnalyzeAll(_, _)
AnalyzeAll(apps, rev) ==
    IF apps = <<>> THEN <<>>
    ELSE analyze_permissions(Head(apps), rev) \o AnalyzeAll(Tail(apps), rev)

process_app_database(d, rev) ==
    LET apps == load_json_data(d) IN
    IF apps = <<>> THEN <<>> ELSE AnalyzeAll(apps, rev)

\* The records of the database of the model: with and without a name; two
\* records of a database may share (name, id, genre).
DbFields ==
    [data_collected : {Absent, ScalarField("Call Log"),
                       ListField(<<"IMEI", "Motion sensors">>)},
     permission : {Absent, ListField(<<"Call Log">>)},
     security_practices : {Absent}]

DbApps ==
    {[name |-> n, id |-> i, genre |-> "Game", fields |-> f] :
        n \in {"", "A"}, i \in {"1"}, f \in DbFields}

Databases ==
    {[kind |-> "missing", apps |-> <<>>], [kind |-> "invalid", apps |-> <<>>]}
    \cup {[kind |-> "json", apps |-> a] : a \in SeqsUpTo(DbApps, MaxDbApps)}

InitMain ==
    /\ pc = "main"
    /\ db \in Databases
    /\ app_data = None
    /\ results = <<>>
    /\ outFile = NoFile
    /\ file = <<>>
    /\ apps_data = <<>>
    /\ metrics = None

\* main, line 260: results = process_app_database(input_file)
ProcessAppDatabase ==
    /\ pc = "main"
    /\ \E rev \in BOOLEAN : results' = process_app_database(db, rev)
    /\ pc' = "processed"
    /\ UNCHANGED <<app_data, db, outFile, file, apps_data, metrics>>

\* Mutant of HasResults: "if results is not None", true of the empty list.
HasResultsNotNone(rs) == rs = <<>> \/ rs # <<>>

\* "if results": true for a non-empty list.
HasResults(rs) == rs # <<>>

\* main, lines 263-265: save_results(results, output_file)
SaveResults ==
    /\ pc = "processed"
    /\ HasResults(results)
    /\ outFile' = save_results(results)
    /\ pc' = "saved"
    /\ UNCHANGED <<app_data, db, results, file, apps_data, metrics>>

\* main, lines 266-267: nothing is written.
NothingGenerated ==
    /\ pc = "processed"
    /\ ~HasResults(results)
    /\ pc' = "nothing"
    /\ UNCHANGED <<app_data, db, results, outFile, file, apps_data, metrics>>

\* main of a reading script: apps_data = load_triple_data(input_file)
LoadSaved ==
    /\ pc = "saved"
    /\ outFile.exists
    /\ file' = outFile.lines
    /\ apps_data' = load_triple_data(outFile.lines)
    /\ pc' = "loaded"
    /\ UNCHANGED <<app_data, db, results, outFile, metrics>>

NextMain == ProcessAppDatabase \/ SaveResults \/ NothingGenerated \/ LoadSaved

SpecMain == InitMain /\ [][NextMain]_vars

(***************************************************************************)
(* A reading script on any text file: load_triple_data applied to a        *)
(* bounded sequence of lines.                                              *)
(***************************************************************************)
MaxLines == 4       \* most lines of a file read

\* The lines of the model: the header, the lines of an app block (one name
\* with a comma), a blank line, two well-formed triple lines, a triple line
\* whose status is no integer and one with two fields.
ReadLines ==
    {HeaderLine, NameLine("A"), NameLine("A, Inc"), IdLine("1"),
     GenreLine("Game"), MarkerLine, SepLine, BlankLine,
     OtherLine(<<"channel1", "Camera", "1">>),
     OtherLine(<<"channel2", "Camera", "0">>),
     OtherLine(<<"channel1", "Camera", "x">>),
     OtherLine(<<"channel1", "Camera">>)}

Files == SeqsUpTo(ReadLines, MaxLines)

InitRead ==
    /\ pc = "read"
    /\ file \in Files
    /\ app_data = None
    /\ db = None
    /\ results = <<>>
    /\ outFile = NoFile
    /\ apps_data = <<>>
    /\ metrics = None

LoadTripleData ==
    /\ pc = "read"
    /\ apps_data' = load_triple_data(file)
    /\ pc' = "loaded"
    /\ UNCHANGED <<app_data, db, results, outFile, file, metrics>>

NextRead == LoadTripleData

SpecRead == InitRead /\ [][NextRead]_vars

(***************************************************************************)
(* calculate_metrics (src/consistency_visualization.py:82-207).            *)
(*                                                                         *)
(* A dict is modelled by the set of its keys and a total function that     *)
(* holds the values of the keys (and a default elsewhere).  A percentage   *)
(* n / d * 100 is kept exact, as the fraction num / den.                   *)
(***************************************************************************)
\* The permission names and genres of the parsed records of the model:
\* "Bluetooth" is a permission that is no category of the tables.
Permissions == Categories \cup {"Bluetooth"}
Genres == {"Game", "Tool"}

Percent(n, d) ==
    IF d > 0 THEN [num |-> n * 100, den |-> d] ELSE [num |-> 0, den |-> 1]

\* permission_channels[permission]: a dict channel -> status.
NoChannels == [has |-> {}, val |-> [c \in ChannelNames |-> 0]]

\* permission_channels = defaultdict(dict)
NoPermissions == [keys |-> {}, val |-> [p \in Permissions |-> NoChannels]]

\* Mutant of TripleStep: every triple of a pair already recorded counts,
\* whatever its status.
TripleStepAnyRepeat(st, t) ==
    LET channels == st.pch.val[t.permission]
        conflict == t.channel \in channels.has
    IN  [pch |-> [keys |-> st.pch.keys \cup {t.permission},
                  val |-> [st.pch.val EXCEPT ![t.permission] =
                             [has |-> channels.has \cup {t.channel},
                              val |-> [channels.val EXCEPT
                                         ![t.channel] = t.status]]]],
         ica |-> IF conflict THEN st.ica + 1 ELSE st.ica,
         total |-> st.total + 1]

\* The body of "for triple in app_triples" (lines 110-123).
TripleStep(st, t) ==
    LET channels == st.pch.val[t.permission]
        conflict == /\ t.channel \in channels.has
                    /\ channels.val[t.channel] # t.status
    IN  [pch |-> [keys |-> st.pch.keys \cup {t.permission},
                  val |-> [st.pch.val EXCEPT ![t.permission] =
                             [has |-> channels.has \cup {t.channel},
                              val |-> [channels.val EXCEPT
                                         ![t.channel] = t.status]]]],
         ica |-> IF conflict THEN st.ica + 1 ELSE st.ica,
         total |-> st.total + 1]

RECURSIVE TripleLoop(_)
TripleLoop(it) ==
    IF it.rest = <<>> THEN it.state
    ELSE TripleLoop([state |-> TripleStep(it.state, Head(it.rest)),
                     rest |-> Tail(it.rest)])

\* permission_channels of an app, with the ICA increments and the number of
\* triples of the pass.
GroupTriples(ts) ==
    TripleLoop([state |-> [pch |-> NoPermissions, ica |-> 0, total |-> 0],
                rest |-> ts])

\* Mutant of IsConsistent: without "and statuses[0] != -1".
IsConsistentIgnoringMinusOne(channels) ==
    /\ Cardinality(channels.has) = 3
    /\ \E s0 \in {channels.val[c] : c \in channels.has} :
          \A c \in channels.has : channels.val[c] = s0

\* Lines 131-133: len(channels) == 3, every status equals statuses[0], and
\* statuses[0] != -1.
IsConsistent(channels) ==
    /\ Cardinality(channels.has) = 3
    /\ \E s0 \in {channels.val[c] : c \in channels.has} :
          /\ \A c \in channels.has : channels.val[c] = s0
          /\ s0 # -1

\* Lines 131 and 138: the CCOR block lies inside "if len(channels) == 3".
CcorCounted(channels) ==
    /\ Cardinality(channels.has) = 3
    /\ "channel1" \in channels.has
    /\ "channel2" \in channels.has

\* Mutant of CcorMissing: the test of line 140 outside the block that counts
\* the total.
CcorMissingUnguarded(channels) ==
    /\ "channel1" \in channels.has
    /\ "channel2" \in channels.has
    /\ channels.val["channel1"] = 1
    /\ channels.val["channel2"] = 0

\* Line 140.
CcorMissing(channels) ==
    /\ CcorCounted(channels)
    /\ channels.val["channel1"] = 1
    /\ channels.val["channel2"] = 0

\* Lines 131 and 144: the CCCR block lies inside "if len(channels) == 3".
CccrCounted(channels) ==
    /\ Cardinality(channels.has) = 3
    /\ "channel1" \in channels.has
    /\ "channel3" \in channels.has

\* Lines 146-147.
CccrConflict(channels) ==
    /\ CccrCounted(channels)
    /\ \/ channels.val["channel1"] = 1 /\ channels.val["channel3"] = 0
       \/ channels.val["channel1"] = 0 /\ channels.val["channel3"] = 1

\* d[genre][field] += n on a defaultdict; the key is made by the access.
AddTo(d, genre, field, n) ==
    [keys |-> d.keys \cup {genre},
     val |-> [d.val EXCEPT ![genre][field] = @ + n]]

\* A defaultdict is touched only when the statement that accesses it runs.
AddIf(cond, d, genre, field, n) == IF cond THEN AddTo(d, genre, field, n) ELSE d

NoCounts(fields) == [keys |-> {}, val |-> [g \in Genres |-> fields]]

\* The locals of calculate_metrics before the loop (lines 86-102).
InitialMetrics ==
    [apps_occ |-> <<>>,
     genre_occ |-> NoCounts([count |-> 0, consistent |-> 0]),
     ccor_data |-> NoCounts([total |-> 0, missing |-> 0]),
     cccr_data |-> NoCounts([total |-> 0, conflict |-> 0]),
     ica_count |-> 0,
     ica_by_genre |-> NoCounts([n |-> 0]),
     total_permissions |-> 0,
     consistent_count |-> 0,
     all_permissions_count |-> 0,
     permission_channels |-> NoPermissions]

\* The body of "for app_idx, app in enumerate(apps_data)" (lines 104-159).
AppStep(m, app) ==
    LET g == app.genre
        grouped == GroupTriples(app.triples)
        pch == grouped.pch
        app_total == Cardinality(pch.keys)
        app_consistent ==
            Cardinality({p \in pch.keys : IsConsistent(pch.val[p])})
        ccor_total ==
            Cardinality({p \in pch.keys : CcorCounted(pch.val[p])})
        ccor_missing ==
            Cardinality({p \in pch.keys : CcorMissing(pch.val[p])})
        cccr_total ==
            Cardinality({p \in pch.keys : CccrCounted(pch.val[p])})
        cccr_conflict ==
            Cardinality({p \in pch.keys : CccrConflict(pch.val[p])})
    IN  [apps_occ |-> IF app_total > 0
                      THEN Append(m.apps_occ, Percent(app_consistent, app_total))
                      ELSE m.apps_occ,
         genre_occ |-> AddIf(app_total > 0,
                             AddIf(app_total > 0, m.genre_occ, g, "count",
                                   app_total),
                             g, "consistent", app_consistent),
         ccor_data |-> AddIf(ccor_missing > 0,
                             AddIf(ccor_total > 0, m.ccor_data, g, "total",
                                   ccor_total),
                             g, "missing", ccor_missing),
         cccr_data |-> AddIf(cccr_conflict > 0,
                             AddIf(cccr_total > 0, m.cccr_data, g, "total",
                                   cccr_total),
                             g, "conflict", cccr_conflict),
         ica_count |-> m.ica_count + grouped.ica,
         ica_by_genre |-> AddIf(grouped.ica > 0, m.ica_by_genre, g, "n",
                                grouped.ica),
         total_permissions |-> m.total_permissions + grouped.total,
         consistent_count |-> m.consistent_count + app_consistent,
         all_permissions_count |-> m.all_permissions_count + app_total,
         permission_channels |-> pch]

RECURSIVE AppLoop(_)
AppLoop(it) ==
    IF it.rest = <<>> THEN it.state
    ELSE AppLoop([state |-> AppStep(it.state, Head(it.rest)),
                  rest |-> Tail(it.rest)])

\* The (consistent, total, n) with consistent <= total <= 10 and n <= 10 for
\* which the double arithmetic of "consistent / total * 100 / 100 * n" ends
\* just below the whole number the exact product is, so that int() gives one
\* less than it.
FloatShort ==
    {<<1, 3, 3>>, <<1, 3, 6>>, <<1, 3, 9>>, <<2, 3, 3>>, <<2, 3, 6>>,
     <<2, 3, 9>>, <<1, 6, 6>>, <<2, 6, 3>>, <<2, 6, 6>>, <<2, 6, 9>>,
     <<4, 6, 3>>, <<4, 6, 6>>, <<4, 6, 9>>, <<3, 9, 3>>, <<3, 9, 6>>,
     <<3, 9, 9>>, <<6, 9, 3>>, <<6, 9, 6>>, <<6, 9, 9>>}

\* Line 166: int(app_occ / 100 * n), for app_occ = consistent / total * 100
\* as line 154 computed it.
IntOfShare(app_occ, n) ==
    LET consistent == app_occ.num \div 100
        total == app_occ.den
        exact == (consistent * n) \div total
    IN  IF <<consistent, total, n>> \in FloatShort THEN exact - 1 ELSE exact

\* The body of "for i, app_occ in enumerate(apps_occ)" (lines 164-171); n is
\* len(permission_channels), the dict the loop over the apps left behind.
TrendStep(st, app_occ, n) ==
    LET cumulative_consistent ==
            st.cumulative_consistent + IntOfShare(app_occ, n)
        cumulative_total == st.cumulative_total + n
    IN  [cumulative_consistent |-> cumulative_consistent,
         cumulative_total |-> cumulative_total,
         trend |-> Append(st.trend,
                          Percent(cumulative_consistent, cumulative_total))]

RECURSIVE TrendLoop(_, _)
TrendLoop(it, n) ==
    IF it.rest = <<>> THEN it.state
    ELSE TrendLoop([state |-> TrendStep(it.state, Head(it.rest), n),
                    rest |-> Tail(it.rest)], n)

\* Lines 161-171.
overall_occ_trend(apps_occ, permission_channels) ==
    TrendLoop([state |-> [cumulative_consistent |-> 0, cumulative_total |-> 0,
                          trend |-> <<>>],
               rest |-> apps_occ],
              Cardinality(permission_channels.keys)).trend

\* Lines 173-195: one percentage per key of the genre's dict.
GenreResult(d, numer, denom) ==
    [keys |-> d.keys,
     val |-> [g \in Genres |-> Percent(d.val[g][numer], d.val[g][denom])]]

calculate_metrics(apps) ==
    LET m == AppLoop([state |-> InitialMetrics, rest |-> apps]) IN
    [kind |-> "metrics",
     overall_occ_trend |-> overall_occ_trend(m.apps_occ, m.permission_channels),
     apps_occ |-> m.apps_occ,
     genre_occ |-> GenreResult(m.genre_occ, "consistent", "count"),
     ccor |-> GenreResult(m.ccor_data, "missing", "total"),
     cccr |-> GenreResult(m.cccr_data, "conflict", "total"),
     ica_ratio |-> Percent(m.ica_count, m.total_permissions),
     ica_by_genre |-> m.ica_by_genre,
     locals |-> m]

(***************************************************************************)
(* analyze_dangerous_permissions (src/permission_visual_analysis.py:       *)
(* 135-153).                                                               *)
(***************************************************************************)
\* ANDROID_DANGEROUS_PERMISSIONS.get(permission, False): the nine categories
\* are all marked True (lines 15-25).
ANDROID_DANGEROUS_PERMISSIONS(permission) == permission \in Categories

\* Line 142.
Collected(t) == t.channel = "channel1" /\ t.status = 1

\* Lines 142-145: a dangerous permission is counted among the collected ones.
Dangerous(t) == Collected(t) /\ ANDROID_DANGEROUS_PERMISSIONS(t.permission)

\* The triples the loops of lines 140-141 visit: every triple of every app,
\* as (index of the app, index of the triple).
AllTriples(apps) ==
    UNION {{<<a, i>> : i \in DOMAIN apps[a].triples} : a \in DOMAIN apps}

TripleAt(apps, p) == apps[p[1]].triples[p[2]]

analyze_dangerous_permissions(apps) ==
    LET total_collected ==
            Cardinality({p \in AllTriples(apps) : Collected(TripleAt(apps, p))})
        total_dangerous ==
            Cardinality({p \in AllTriples(apps) : Dangerous(TripleAt(apps, p))})
    IN  [kind |-> "dangerous",
         dangerous_ratio |-> Percent(total_dangerous, total_collected),
         total_dangerous |-> total_dangerous,
         total_collected |-> total_collected]

(***************************************************************************)
(* analyze_channel_consistency (src/permission_visual_analysis.py:         *)
(* 156-216).                                                               *)
(***************************************************************************)
\* The body of "for triple in app_triples" (lines 174-178).
ChannelStep(pch, t) ==
    [keys |-> pch.keys \cup {t.permission},
     val |-> [pch.val EXCEPT ![t.permission] =
                [has |-> @.has \cup {t.channel},
                 val |-> [@.val EXCEPT ![t.channel] = t.status]]]]

RECURSIVE ChannelLoop(_)
ChannelLoop(it) ==
    IF it.rest = <<>> THEN it.state
    ELSE ChannelLoop([state |-> ChannelStep(it.state, Head(it.rest)),
                      rest |-> Tail(it.rest)])

\* permission_channels of an app (lines 173-178).
GroupByPermission(ts) == ChannelLoop([state |-> NoPermissions, rest |-> ts])

\* Mutant of TripleConsistent: without "and statuses[0] != -1".
TripleConsistentIgnoringMinusOne(channels) ==
    /\ Cardinality(channels.has) = 3
    /\ Cardinality({channels.val[c] : c \in channels.has}) = 1

\* Lines 190-192: three channels, one status, and that status is not -1.
TripleConsistent(channels) ==
    /\ Cardinality(channels.has) = 3
    /\ Cardinality({channels.val[c] : c \in channels.has}) = 1
    /\ -1 \notin {channels.val[c] : c \in channels.has}

\* The locals of analyze_channel_consistency before the loop (lines 159-166).
InitialConsistency ==
    [triple_consistent_count |-> 0,
     total_permissions |-> 0,
     permission_consistency |->
         [keys |-> {},
          val |-> [p \in Permissions |-> [consistent |-> 0, total |-> 0]]],
     app_consistency |-> <<>>]

\* The body of "for app in apps_data" (lines 168-202).
ConsistencyStep(c, app) ==
    LET pch == GroupByPermission(app.triples)
        consistent == {p \in pch.keys : TripleConsistent(pch.val[p])}
        app_total == Cardinality(pch.keys)
        app_consistent == Cardinality(consistent)
    IN  [triple_consistent_count |-> c.triple_consistent_count + app_consistent,
         total_permissions |-> c.total_permissions + app_total,
         permission_consistency |->
             [keys |-> c.permission_consistency.keys \cup pch.keys,
              val |-> [p \in Permissions |->
                         LET d == c.permission_consistency.val[p] IN
                         [consistent |-> IF p \in consistent
                                         THEN d.consistent + 1
                                         ELSE d.consistent,
                          total |-> IF p \in pch.keys THEN d.total + 1
                                    ELSE d.total]]],
         app_consistency |->
             IF app_total > 0
             THEN Append(c.app_consistency,
                         [app_name |-> app.app_name,
                          consistency_ratio |->
                              Percent(app_consistent, app_total)])
             ELSE c.app_consistency]

RECURSIVE ConsistencyLoop(_)
ConsistencyLoop(it) ==
    IF it.rest = <<>> THEN it.state
    ELSE ConsistencyLoop([state |-> ConsistencyStep(it.state, Head(it.rest)),
                          rest |-> Tail(it.rest)])

analyze_channel_consistency(apps) ==
    LET c == ConsistencyLoop([state |-> InitialConsistency, rest |-> apps]) IN
    [kind |-> "consistency",
     triple_consistency_ratio |->
         Percent(c.triple_consistent_count, c.total_permissions),
     permission_consistency |->
         [keys |-> c.permission_consistency.keys,
          val |-> [p \in Permissions |->
                     LET d == c.permission_consistency.val[p] IN
                     [consistent |-> d.consistent, total |-> d.total,
                      ratio |-> Percent(d.consistent, d.total)]]],
     app_consistency |-> c.app_consistency]

(***************************************************************************)
(* The two reading scripts on parsed records.                              *)
(***************************************************************************)
MaxTriples == 3     \* most triples of the app of a one-app input
MaxApps == 2        \* most apps of a several-app input

ParsedApp(name, genre, ts) ==
    [keys |-> {"app_name", "app_id", "genre", "triples"}, app_name |-> name,
     app_id |-> "1", genre |-> genre, triples |-> ts]

Triple(ch, p, s) == [channel |-> ch, permission |-> p, status |-> s]

\* The triples of a one-app input: every channel and status of one category,
\* two triples of a second category and one of a permission outside the
\* tables.
TripleAlphabet ==
    {Triple(ch, "Camera", s) : ch \in ChannelNames, s \in {-1, 0, 1}}
    \cup {Triple("channel1", "Location", 1), Triple("channel2", "Location", 0),
          Triple("channel1", "Bluetooth", 1)}

OneAppInputs ==
    {<<ParsedApp("A", "Game", ts)>> :
        ts \in {t \in SeqsUpTo(TripleAlphabet, MaxTriples) : t # <<>>}}

\* The apps of a several-app input: of either genre, with three agreeing
\* channels, with channel 1 and channel 2 only, with channel 1 against the
\* two others, with one contradictory triple, or with one agreed category
\* out of two or out of three.
AppTriples ==
    {<<Triple("channel1", "Camera", 1), Triple("channel2", "Camera", 1),
       Triple("channel3", "Camera", 1)>>,
     <<Triple("channel1", "Location", 1), Triple("channel2", "Location", 0)>>,
     <<Triple("channel1", "Camera", 1), Triple("channel2", "Camera", 0),
       Triple("channel3", "Camera", 0)>>,
     <<Triple("channel1", "Phone", -1)>>,
     <<Triple("channel1", "Camera", 1), Triple("channel2", "Camera", 1),
       Triple("channel3", "Camera", 1), Triple("channel1", "Location", 1)>>,
     <<Triple("channel1", "Camera", 0), Triple("channel2", "Camera", 0),
       Triple("channel3", "Camera", 0), Triple("channel1", "Location", 1),
       Triple("channel2", "Phone", 1)>>}

SeveralAppInputs ==
    {a \in SeqsUpTo({ParsedApp("A", g, ts) : g \in Genres, ts \in AppTriples},
                    MaxApps) : Len(a) >= 2}

InitMetrics ==
    /\ pc = "loaded"
    /\ apps_data \in {<<>>} \cup OneAppInputs \cup SeveralAppInputs
    /\ app_data = None
    /\ db = None
    /\ results = <<>>
    /\ outFile = NoFile
    /\ file = <<>>
    /\ metrics = None

\* consistency_visualization.main: metrics = calculate_metrics(apps_data)
CalculateMetrics ==
    /\ pc = "loaded"
    /\ metrics' = calculate_metrics(apps_data)
    /\ pc' = "calculated"
    /\ UNCHANGED <<app_data, db, results, outFile, file, apps_data>>

\* permission_visual_analysis.main:
\* dangerous_result = analyze_dangerous_permissions(apps_data)
AnalyzeDangerous ==
    /\ pc = "loaded"
    /\ metrics' = analyze_dangerous_permissions(apps_data)
    /\ pc' = "dangerous"
    /\ UNCHANGED <<app_data, db, results, outFile, file, apps_data>>

\* permission_visual_analysis.main:
\* consistency_result = analyze_channel_consistency(apps_data)
AnalyzeChannelConsistency ==
    /\ pc = "loaded"
    /\ metrics' = analyze_channel_consistency(apps_data)
    /\ pc' = "consistency"
    /\ UNCHANGED <<app_data, db, results, outFile, file, apps_data>>

NextMetrics ==
    CalculateMetrics \/ AnalyzeDangerous \/ AnalyzeChannelConsistency

SpecMetrics == InitMetrics /\ [][NextMetrics]_vars

(***************************************************************************)
(* prepare_genre_comparison_data (src/permission_visual_analysis.py:       *)
(* 341-377).                                                               *)
(***************************************************************************)
\* genre_apps: its keys, in the order of their first app (lines 344-346).
GenreOrder(apps) ==
    LET IsFirst(i) == \A j \in 1..(i - 1) : apps[j].genre # apps[i].genre
        firsts == SelectSeq([i \in DOMAIN apps |-> i], IsFirst)
    IN  [n \in DOMAIN firsts |-> apps[firsts[n]].genre]

\* genre_apps[genre]: the apps of the genre, in file order.
genre_apps(apps, genre) == SelectSeq(apps, LAMBDA a : a.genre = genre)

\* Line 351: "if len(apps) < 5: continue".
MinGenreApps == 5

\* Mutant of EnoughApps: the threshold one lower.
EnoughAppsFromFour(apps) == Len(apps) >= MinGenreApps - 1

EnoughApps(apps) == Len(apps) >= MinGenreApps

\* Lines 357-360: the permissions of the app's triples of channel 1 with
\* status 1.
ChannelOnePermissions(app) ==
    {app.triples[i].permission :
        i \in {j \in DOMAIN app.triples :
                 /\ app.triples[j].channel = "channel1"
                 /\ app.triples[j].status = 1}}

\* app_permissions: a dict keyed by app_name (line 361); of the apps of one
\* name the last one's set stays.
app_permissions(apps) ==
    LET names == {apps[i].app_name : i \in DOMAIN apps}
        LastOf(n) == CHOOSE i \in DOMAIN apps :
                        /\ apps[i].app_name = n
                        /\ \A j \in DOMAIN apps :
                              apps[j].app_name = n => j <= i
    IN  [keys |-> names,
         val |-> [n \in names |-> ChannelOnePermissions(apps[LastOf(n)])]]

\* Lines 364-375: the entry of a genre.
GenreEntry(genre, apps) ==
    LET perms == app_permissions(apps)
        values == {perms.val[n] : n \in perms.keys}
        all_permissions == UNION values
        common_permissions ==
            IF Cardinality(perms.keys) > 1
            THEN {p \in all_permissions : \A v \in values : p \in v}
            ELSE all_permissions
    IN  [genre |-> genre,
         app_count |-> Len(apps),
         common_permissions |-> common_permissions,
         common_count |-> Cardinality(common_permissions),
         total_permissions |-> Cardinality(all_permissions),
         common_ratio |-> Percent(Cardinality(common_permissions),
                                  Cardinality(all_permissions))]

prepare_genre_comparison_data(apps) ==
    LET kept == SelectSeq(GenreOrder(apps),
                          LAMBDA g : EnoughApps(genre_apps(apps, g)))
    IN  [n \in DOMAIN kept |-> GenreEntry(kept[n], genre_apps(apps, kept[n]))]

MaxGenreApps == 6   \* most apps of an input of the genre comparison

\* The apps of an input of the genre comparison: four apps of genre Game,
\* two of them of one name, with two, one or no category present on channel
\* 1, and one app of genre Tool.
GenreAppAlphabet ==
    {ParsedApp("A", "Game", <<Triple("channel1", "Camera", 1)>>),
     ParsedApp("A", "Game", <<Triple("channel1", "Camera", 1),
                              Triple("channel1", "Location", 1)>>),
     ParsedApp("B", "Game", <<Triple("channel1", "Camera", 1),
                              Triple("channel2", "Location", 1)>>),
     ParsedApp("C", "Game", <<Triple("channel1", "Camera", 0)>>),
     ParsedApp("D", "Tool", <<Triple("channel1", "Camera", 1)>>)}

InitGenre ==
    /\ pc = "loaded"
    /\ apps_data \in SeqsUpTo(GenreAppAlphabet, MaxGenreApps)
    /\ app_data = None
    /\ db = None
    /\ results = <<>>
    /\ outFile = NoFile
    /\ file = <<>>
    /\ metrics = None

\* permission_visual_analysis.main:
\* genre_comparison = prepare_genre_comparison_data(apps_data)
PrepareGenreComparison ==
    /\ pc = "loaded"
    /\ metrics' = [kind |-> "genre_comparison",
                   data |-> prepare_genre_comparison_data(apps_data)]
    /\ pc' = "compared"
    /\ UNCHANGED <<app_data, db, results, outFile, file, apps_data>>

NextGenre == PrepareGenreComparison

SpecGenre == InitGenre /\ [][NextGenre]_vars

(***************************************************************************)
(* prepare_sankey_data (src/permission_visual_analysis.py:248-302).        *)
(***************************************************************************)
\* The keys of permission_status in insertion order: the permissions of the
\* app's triples, each at its first triple (lines 255-257).
PermissionOrder(ts) ==
    LET IsFirst(i) == \A j \in 1..(i - 1) : ts[j].permission # ts[i].permission
        firsts == SelectSeq([i \in DOMAIN ts |-> i], IsFirst)
    IN  [n \in DOMAIN firsts |-> ts[firsts[n]].permission]

\* Lines 260-267: the flow keys of an app, one for each permission that has
\* the three channels, in the order of the permissions.
AppFlows(app) ==
    LET pst == GroupByPermission(app.triples)
        full == SelectSeq(PermissionOrder(app.triples),
                          LAMBDA p : pst.val[p].has = ChannelNames)
    IN  [n \in DOMAIN full |->
            <<pst.val[full[n]].val["channel1"],
              pst.val[full[n]].val["channel2"],
              pst.val[full[n]].val["channel3"]>>]

RECURSIVE AllFlows(_)
AllFlows(apps) ==
    IF apps = <<>> THEN <<>>
    ELSE AppFlows(Head(apps)) \o AllFlows(Tail(apps))

\* flow_counts: its keys in insertion order, and the count of a key.
FlowKeys(flows) ==
    LET IsFirst(i) == \A j \in 1..(i - 1) : flows[j] # flows[i]
        firsts == SelectSeq([i \in DOMAIN flows |-> i], IsFirst)
    IN  [n \in DOMAIN firsts |-> flows[firsts[n]]]

FlowCount(flows, key) == Cardinality({i \in DOMAIN flows : flows[i] = key})

\* Lines 277-279: "if label not in labels: labels.append(label)" for the
\* three labels of a key.
AddLabel(labels, label) ==
    IF \E i \in DOMAIN labels : labels[i] = label THEN labels
    ELSE Append(labels, label)

\* labels.index(label)
IndexOf(labels, label) ==
    (CHOOSE i \in DOMAIN labels :
        /\ labels[i] = label
        /\ \A j \in 1..(i - 1) : labels[j] # label) - 1

\* The body of "for (c1, c2, c3), count in flow_counts.items()" (lines
\* 275-289).
FlowStep(st, key, count) ==
    LET labels == AddLabel(AddLabel(AddLabel(st.labels, IntToStr(key[1])),
                                    IntToStr(key[2])), IntToStr(key[3]))
        c1 == IndexOf(labels, IntToStr(key[1]))
        c2 == IndexOf(labels, IntToStr(key[2]))
        c3 == IndexOf(labels, IntToStr(key[3]))
    IN  [labels |-> labels,
         source |-> st.source \o <<c1, c2 + 3>>,
         target |-> st.target \o <<c2 + 3, c3 + 6>>,
         value |-> st.value \o <<count, count>>]

RECURSIVE FlowLoop(_, _)
FlowLoop(it, flows) ==
    IF it.rest = <<>> THEN it.state
    ELSE FlowLoop([state |-> FlowStep(it.state, Head(it.rest),
                                      FlowCount(flows, Head(it.rest))),
                   rest |-> Tail(it.rest)], flows)

\* Lines 292-294: the first three labels, once for each channel.
ChannelLabels(labels) ==
    [n \in 1..9 |->
        [channel |-> CHANNELS[((n - 1) \div 3) + 1].name,
         label |-> labels[((n - 1) % 3) + 1]]]

prepare_sankey_data(apps) ==
    LET flows == AllFlows(apps)
        st == FlowLoop([state |-> [labels |-> <<"0", "1", "-1">>,
                                   source |-> <<>>, target |-> <<>>,
                                   value |-> <<>>],
                        rest |-> FlowKeys(flows)], flows)
    IN  [kind |-> "sankey",
         labels |-> ChannelLabels(st.labels),
         source |-> st.source,
         target |-> st.target,
         value |-> st.value]

MaxSankeyApps == 2  \* most apps of an input of the flow data

\* The apps of an input of the flow data: one category read on the three
\* channels with statuses among -1, 0, 1 and 2, one category read on two
\* channels only, and two categories on the three channels.
SankeyAppTriples ==
    {<<Triple("channel1", "Camera", s1), Triple("channel2", "Camera", s2),
       Triple("channel3", "Camera", s3)>> :
        s1 \in {0, 1, 2}, s2 \in {-1, 0, 2}, s3 \in {1, 2}}
    \cup {<<Triple("channel1", "Camera", 1), Triple("channel2", "Camera", 0)>>,
          <<Triple("channel1", "Camera", 1), Triple("channel2", "Camera", 0),
            Triple("channel3", "Camera", -1), Triple("channel3", "Location", 0),
            Triple("channel2", "Location", 0), Triple("channel1", "Location", 0),
            Triple("channel3", "Camera", 1)>>}

InitSankey ==
    /\ pc = "loaded"
    /\ apps_data \in SeqsUpTo({ParsedApp("A", "Game", ts) :
                                  ts \in SankeyAppTriples}, MaxSankeyApps)
    /\ app_data = None
    /\ db = None
    /\ results = <<>>
    /\ outFile = NoFile
    /\ file = <<>>
    /\ metrics = None

\* permission_visual_analysis.main:
\* sankey_data = prepare_sankey_data(apps_data)
PrepareSankeyData ==
    /\ pc = "loaded"
    /\ metrics' = prepare_sankey_data(apps_data)
    /\ pc' = "sankey"
    /\ UNCHANGED <<app_data, db, results, outFile, file, apps_data>>

NextSankey == PrepareSankeyData

SpecSankey == InitSankey /\ [][NextSankey]_vars

(***************************************************************************)
(* C1: analyze_permissions returns exactly 27 triples for an application   *)
(* record, one for each (channel, category) pair of the 3 channels and 9   *)
(* categories, whatever the three channel fields are (absent, a list, a    *)
(* scalar): no pair is missing and none is emitted twice.                  *)
(***************************************************************************)
TriplesOf(rs, ch, cat) ==
    {i \in DOMAIN rs : rs[i].channel = ch /\ rs[i].permission = cat}

C1_ExactlyOnePerPair ==
    pc = "analyzed" =>
        /\ Len(results) = 27
        /\ \A ch \in ChannelNames : \A cat \in Categories :
               Cardinality(TriplesOf(results, ch, cat)) = 1

C1_Witness ==
    /\ pc = "analyzed"
    /\ app_data.fields.data_collected = ListField(<<"IMEI", "Call Log">>)
    /\ app_data.fields.permission = ScalarField("Call Log")
    /\ app_data.fields.security_practices = Absent
    /\ Len(results) = 27

(***************************************************************************)
(* C2: when a list-valued channel field holds two different raw items that *)
(* map to the same category, the triple of that (channel, category) has    *)
(* status -1.                                                              *)
(***************************************************************************)
TwoItemsMapTo(items, cat) ==
    \E i, j \in DOMAIN items :
        /\ items[i] # items[j]
        /\ cat \in map_single_item(items[i])
        /\ cat \in map_single_item(items[j])

C2_ConflictFlagged ==
    pc = "analyzed" =>
        \A k \in DOMAIN CHANNELS : \A cat \in Categories :
            LET fv == app_data.fields[CHANNELS[k].field] IN
            (fv.kind = "list" /\ TwoItemsMapTo(fv.items, cat)) =>
                \E i \in DOMAIN results :
                    /\ results[i].channel = CHANNELS[k].name
                    /\ results[i].permission = cat
                    /\ results[i].status = -1

\* What the code does instead: no triple of any input carries -1.
C2_NeverMinusOne ==
    \A i \in DOMAIN results : results[i].status \in {0, 1}

(***************************************************************************)
(* C3: round trip.  Writing the generated results with save_results and    *)
(* re-parsing the file with load_triple_data yields one record per app of  *)
(* the database, in the same order, whose triples are the same multiset of *)
(* (channel, category, status) as the triples generated for that app.      *)
(***************************************************************************)
Statuses == {-1, 0, 1, 2}

TripleSpace == ChannelNames \X Categories \X Statuses

Count(ts, t) ==
    Cardinality({i \in DOMAIN ts :
                    <<ts[i].channel, ts[i].permission, ts[i].status>> = t})

SameMultiset(ts, rs) ==
    /\ Len(ts) = Len(rs)
    /\ \A t \in TripleSpace : Count(ts, t) = Count(rs, t)

C3_RoundTripPerApp ==
    pc = "loaded" =>
        /\ Len(apps_data) = Len(db.apps)
        /\ \A i \in DOMAIN apps_data :
              i \in DOMAIN db.apps =>
                 SameMultiset(apps_data[i].triples,
                              analyze_permissions(db.apps[i], FALSE))

\* What the code does: one record per distinct (name, id, genre) of the
\* results, in order of first appearance, holding the triples of every
\* result of that key.
C3_RoundTripPerKey ==
    pc = "loaded" =>
        LET keys == AppKeys(results) IN
        /\ Len(apps_data) = Len(keys)
        /\ \A i \in DOMAIN apps_data :
              i \in DOMAIN keys =>
                 /\ apps_data[i].app_name = keys[i].app_name
                 /\ apps_data[i].app_id = keys[i].app_id
                 /\ apps_data[i].genre = keys[i].genre
                 /\ SameMultiset(apps_data[i].triples,
                                 GroupOf(results, keys[i]))

(***************************************************************************)
(* C10: when app_database.json is missing or is no valid JSON,             *)
(* load_json_data returns the empty list, process_app_database returns no  *)
(* results, and main neither calls save_results nor writes the triples     *)
(* file.                                                                   *)
(***************************************************************************)
C10_NothingToProcess ==
    (db.kind \in {"missing", "invalid"} /\ pc # "main") =>
        /\ load_json_data(db) = <<>>
        /\ results = <<>>
        /\ pc \in {"processed", "nothing"}
        /\ ~outFile.exists

C10_Witness ==
    /\ db.kind = "invalid"
    /\ pc = "nothing"
    /\ ~outFile.exists

(***************************************************************************)
(* C9: a triple line whose status is no integer, or that has not three     *)
(* fields, is dropped alone: the file is parsed as if the line were not in *)
(* it; and an app block from which no triple was parsed does not appear in *)
(* the result.                                                             *)
(***************************************************************************)
GoodTriple(line) ==
    line.tag = "other" /\ Len(line.fields) = 3 /\ line.fields[3] \in IntTokens

Malformed(line) ==
    line.tag = "other" /\ HasComma(line) /\ ~GoodTriple(line)

RemoveAt(ls, i) == SubSeq(ls, 1, i - 1) \o SubSeq(ls, i + 1, Len(ls))

\* The app blocks of the lines read: a block runs from a name line to the
\* line before the next name line or separator.
BlockEnd(ls, i) ==
    LET ends == {j \in (i + 1)..Len(ls) : ls[j].tag \in {"name", "sep"}} IN
    IF ends = {} THEN Len(ls) + 1
    ELSE CHOOSE j \in ends : \A k \in ends : j <= k

NonEmptyBlocks(ls) ==
    {i \in DOMAIN ls :
        /\ ls[i].tag = "name"
        /\ \E j \in (i + 1)..(BlockEnd(ls, i) - 1) : GoodTriple(ls[j])}

C9_DroppedAlone ==
    pc = "loaded" =>
        \A i \in DOMAIN file :
            Malformed(file[i]) => apps_data = load_triple_data(RemoveAt(file, i))

\* The records that stem from a name line are those that hold the key.
Named(apps) == {k \in DOMAIN apps : "app_name" \in apps[k].keys}

C9_EmptyBlockDropped ==
    pc = "loaded" =>
        Cardinality(Named(apps_data))
            <= Cardinality(NonEmptyBlocks(SkipHeader(file)))

C9_MalformedLinesSkipped == C9_DroppedAlone /\ C9_EmptyBlockDropped

\* What the reader does guarantee: a malformed line that is not the first
\* line of the file changes nothing, and no record is returned without a
\* triple.
C9_DroppedAloneAfterFirstLine ==
    pc = "loaded" =>
        /\ \A i \in DOMAIN file :
              (i > 1 /\ Malformed(file[i])) =>
                  apps_data = load_triple_data(RemoveAt(file, i))
        /\ \A k \in DOMAIN apps_data : apps_data[k].triples # <<>>

(***************************************************************************)
(* The metrics as the specification words them, on the triples of an app.  *)
(***************************************************************************)
CategoriesOf(app) == {app.triples[i].permission : i \in DOMAIN app.triples}

EntriesOf(app, p, ch) ==
    {i \in DOMAIN app.triples :
        app.triples[i].permission = p /\ app.triples[i].channel = ch}

EntryExists(app, p, ch) == EntriesOf(app, p, ch) # {}

\* The status of (p, ch): that of the last triple of the pair.
StatusOf(app, p, ch) ==
    LET e == EntriesOf(app, p, ch) IN
    app.triples[CHOOSE i \in e : \A j \in e : j <= i].status

AgreedOn(app, p) ==
    /\ \A ch \in ChannelNames : EntryExists(app, p, ch)
    /\ \A ch \in ChannelNames :
          StatusOf(app, p, ch) = StatusOf(app, p, "channel1")
    /\ StatusOf(app, p, "channel1") # -1

\* The (app, category) pairs of a genre that satisfy Test.
PairsOf(apps, g, Test(_, _)) ==
    {q \in UNION {{<<a, p>> : p \in CategoriesOf(apps[a])} :
                     a \in {b \in DOMAIN apps : apps[b].genre = g}} :
        Test(apps[q[1]], q[2])}

(***************************************************************************)
(* C4: every app-level OCC, every genre-level OCC, every CCOR, every CCCR  *)
(* and the dangerous-permission ratio lie in [0, 100].                     *)
(***************************************************************************)
InRange(r) == r.den > 0 /\ 0 <= r.num /\ r.num <= 100 * r.den

C4_PercentagesInRange ==
    /\ pc = "calculated" =>
          /\ \A i \in DOMAIN metrics.apps_occ : InRange(metrics.apps_occ[i])
          /\ \A g \in metrics.genre_occ.keys : InRange(metrics.genre_occ.val[g])
          /\ \A g \in metrics.ccor.keys : InRange(metrics.ccor.val[g])
          /\ \A g \in metrics.cccr.keys : InRange(metrics.cccr.val[g])
    /\ pc = "dangerous" => InRange(metrics.dangerous_ratio)

\* Two apps of a genre, one with a CCOR omission and one without: 50%.
C4_Witness ==
    /\ pc = "calculated"
    /\ Len(apps_data) = 2
    /\ "Game" \in metrics.ccor.keys
    /\ metrics.ccor.val["Game"] = [num |-> 100, den |-> 2]
    /\ metrics.genre_occ.val["Game"] = [num |-> 100, den |-> 2]

(***************************************************************************)
(* C5: a category of an app counts as consistent exactly when all three    *)
(* channels have an entry for it, the three statuses are equal and that    *)
(* status is not -1; the app-level OCC is the number of such categories    *)
(* divided by the number of distinct categories of the app's triples,      *)
(* times 100.                                                              *)
(***************************************************************************)
C5_AppOcc ==
    pc = "calculated" =>
        /\ Len(metrics.apps_occ) = Len(apps_data)
        /\ \A i \in DOMAIN apps_data :
              i \in DOMAIN metrics.apps_occ =>
                 LET app == apps_data[i]
                     agreed == {p \in CategoriesOf(app) : AgreedOn(app, p)}
                 IN  metrics.apps_occ[i] =
                        Percent(Cardinality(agreed),
                                Cardinality(CategoriesOf(app)))

\* Camera is 1 on the three channels: it is the app's one category and it
\* counts.
C5_Witness ==
    /\ pc = "calculated"
    /\ apps_data = <<ParsedApp("A", "Game",
                        <<Triple("channel1", "Camera", 1),
                          Triple("channel2", "Camera", 1),
                          Triple("channel3", "Camera", 1)>>)>>
    /\ metrics.apps_occ = <<[num |-> 100, den |-> 1]>>

(***************************************************************************)
(* C6: every category of an app that has a channel-1 and a channel-2 entry *)
(* (with or without a channel-3 entry) adds one to the CCOR total of the   *)
(* app's genre, and one to its missing-count exactly when channel 1 is 1   *)
(* and channel 2 is 0; the genre's CCOR is missing / total * 100.          *)
(***************************************************************************)
BothOneTwo(app, p) ==
    EntryExists(app, p, "channel1") /\ EntryExists(app, p, "channel2")

OmittedOnTwo(app, p) ==
    /\ BothOneTwo(app, p)
    /\ StatusOf(app, p, "channel1") = 1
    /\ StatusOf(app, p, "channel2") = 0

C6_CcorCounts ==
    pc = "calculated" =>
        \A g \in Genres :
            LET total == Cardinality(PairsOf(apps_data, g, BothOneTwo))
                missing == Cardinality(PairsOf(apps_data, g, OmittedOnTwo))
            IN  /\ metrics.locals.ccor_data.val[g].total = total
                /\ metrics.locals.ccor_data.val[g].missing = missing
                /\ total > 0 =>
                      /\ g \in metrics.ccor.keys
                      /\ metrics.ccor.val[g] = Percent(missing, total)

(***************************************************************************)
(* C7: every category of an app that has a channel-1 and a channel-3 entry *)
(* (with or without a channel-2 entry) adds one to the CCCR total of the   *)
(* app's genre, and one to its conflict count exactly when one of the two  *)
(* is 1 and the other 0; the genre's CCCR is conflict / total * 100.       *)
(***************************************************************************)
BothOneThree(app, p) ==
    EntryExists(app, p, "channel1") /\ EntryExists(app, p, "channel3")

ConflictOneThree(app, p) ==
    /\ BothOneThree(app, p)
    /\ \/ StatusOf(app, p, "channel1") = 1 /\ StatusOf(app, p, "channel3") = 0
       \/ StatusOf(app, p, "channel1") = 0 /\ StatusOf(app, p, "channel3") = 1

C7_CccrCounts ==
    pc = "calculated" =>
        \A g \in Genres :
            LET total == Cardinality(PairsOf(apps_data, g, BothOneThree))
                conflict == Cardinality(PairsOf(apps_data, g, ConflictOneThree))
            IN  /\ metrics.locals.cccr_data.val[g].total = total
                /\ metrics.locals.cccr_data.val[g].conflict = conflict
                /\ total > 0 =>
                      /\ g \in metrics.cccr.keys
                      /\ metrics.cccr.val[g] = Percent(conflict, total)

(***************************************************************************)
(* C8: every triple that carries status -1 is counted exactly once toward  *)
(* the ICA count of calculate_metrics, and toward the ICA count of its     *)
(* app's genre.                                                            *)
(***************************************************************************)
Contradictory(t) == t.status = -1

NumberContradictory(apps) ==
    Cardinality({p \in AllTriples(apps) : Contradictory(TripleAt(apps, p))})

AppsOfGenre(apps, g) ==
    SelectSeq(apps, LAMBDA a : a.genre = g)

C8_MinusOneCountedOnce ==
    pc = "calculated" =>
        /\ metrics.locals.ica_count = NumberContradictory(apps_data)
        /\ \A g \in Genres :
              metrics.ica_by_genre.val[g].n =
                 NumberContradictory(AppsOfGenre(apps_data, g))

(***************************************************************************)
(* C11: for every genre that has an app in the input of calculate_metrics, *)
(* the genre OCC, the CCOR and the CCCR results each hold an entry for the *)
(* genre, and the entry is 0 when the genre's denominator of that metric   *)
(* is zero; ica_ratio is 0 when no triple was processed.                   *)
(***************************************************************************)
GenresOf(apps) == {apps[a].genre : a \in DOMAIN apps}

Zero == [num |-> 0, den |-> 1]

C11_GenreEntries ==
    pc = "calculated" =>
        /\ \A g \in GenresOf(apps_data) :
              /\ g \in metrics.genre_occ.keys
              /\ g \in metrics.ccor.keys
              /\ g \in metrics.cccr.keys
              /\ metrics.locals.genre_occ.val[g].count = 0 =>
                    metrics.genre_occ.val[g] = Zero
              /\ metrics.locals.ccor_data.val[g].total = 0 =>
                    metrics.ccor.val[g] = Zero
              /\ metrics.locals.cccr_data.val[g].total = 0 =>
                    metrics.cccr.val[g] = Zero
        /\ metrics.locals.total_permissions = 0 => metrics.ica_ratio = Zero

\* What the code does instead: the genre OCC has its entry and ica_ratio is
\* 0 without triples, but the CCOR and the CCCR results hold a genre only
\* once a category of the genre has entries on all three channels.
C11_OccEntryOnly ==
    pc = "calculated" =>
        /\ \A g \in GenresOf(apps_data) :
              /\ g \in metrics.genre_occ.keys
              /\ g \in metrics.ccor.keys <=>
                    metrics.locals.ccor_data.val[g].total > 0
              /\ g \in metrics.cccr.keys <=>
                    metrics.locals.cccr_data.val[g].total > 0
        /\ metrics.locals.total_permissions = 0 => metrics.ica_ratio = Zero

(***************************************************************************)
(* C12: prepare_genre_comparison_data returns an entry for a genre if and  *)
(* only if at least 5 app records of its input have that genre, and one    *)
(* entry at most.                                                          *)
(***************************************************************************)
EntriesOfGenre(data, g) == {n \in DOMAIN data : data[n].genre = g}

C12_FiveAppsOrAbsent ==
    pc = "compared" =>
        \A g \in Genres :
            Cardinality(EntriesOfGenre(metrics.data, g)) =
                IF Len(AppsOfGenre(apps_data, g)) >= 5 THEN 1 ELSE 0

\* Five apps of genre Game and one of genre Tool: Game alone is reported.
C12_Witness ==
    /\ pc = "compared"
    /\ Len(AppsOfGenre(apps_data, "Game")) = 5
    /\ Len(AppsOfGenre(apps_data, "Tool")) = 1
    /\ Len(metrics.data) = 1
    /\ metrics.data[1].genre = "Game"
    /\ metrics.data[1].app_count = 5

(***************************************************************************)
(* C13: the status analyze_permissions emits for a channel and a category  *)
(* is 0 when the channel's field is absent from the record; when the field *)
(* is a scalar it is 1 if the value maps to the category and 0 otherwise;  *)
(* when the field is a list it is 0 if and only if no item of the list     *)
(* maps to the category.                                                   *)
(***************************************************************************)
SomeItemMapsTo(items, cat) ==
    \E j \in DOMAIN items : cat \in map_single_item(items[j])

C13_StatusByField ==
    pc = "analyzed" =>
        \A k \in DOMAIN CHANNELS : \A i \in DOMAIN results :
            results[i].channel = CHANNELS[k].name =>
                LET fv == app_data.fields[CHANNELS[k].field]
                    cat == results[i].permission
                    status == results[i].status
                IN  /\ fv.kind = "absent" => status = 0
                    /\ fv.kind = "scalar" =>
                          status = IF cat \in map_single_item(fv.items[1])
                                   THEN 1 ELSE 0
                    /\ fv.kind = "list" =>
                          (status = 0 <=> ~SomeItemMapsTo(fv.items, cat))

\* A list whose first item maps to Phone and whose second maps to nothing, a
\* scalar that maps to Sensors and an absent field.
C13_Witness ==
    /\ pc = "analyzed"
    /\ app_data.fields.data_collected = ListField(<<"IMEI", "Weather">>)
    /\ app_data.fields.permission = ScalarField("Motion sensors")
    /\ app_data.fields.security_practices = Absent
    /\ \E i \in DOMAIN results :
          results[i] = Result(AppInfo(app_data), "channel1", "Phone", 1)
    /\ \E i \in DOMAIN results :
          results[i] = Result(AppInfo(app_data), "channel2", "Sensors", 1)
    /\ \A i \in DOMAIN results :
          results[i].channel = "channel3" => results[i].status = 0

(***************************************************************************)
(* C14: overall_occ_trend has one entry per app, in file order; entry i is *)
(* the running average of the app-level OCC of the first i apps, so the    *)
(* first entry is the first app's OCC, and it is determined by those apps  *)
(* alone: it is the entry i of the trend computed for the first i apps of  *)
(* the file without the later ones.                                        *)
(***************************************************************************)
SameRatio(a, b) == a.num * b.den = b.num * a.den

Prefix(apps, i) == SubSeq(apps, 1, i)

C14_TrendOfOwnCounts ==
    pc = "calculated" =>
        /\ Len(metrics.overall_occ_trend) = Len(apps_data)
        /\ apps_data # <<>> =>
              SameRatio(metrics.overall_occ_trend[1], metrics.apps_occ[1])
        /\ \A i \in DOMAIN metrics.overall_occ_trend :
              SameRatio(metrics.overall_occ_trend[i],
                        calculate_metrics(Prefix(apps_data, i))
                            .overall_occ_trend[i])

\* What the code does instead: one entry per app, entry i being the sum over
\* the first i apps of int(OCC / 100 * n) divided by i * n, with n the number
\* of categories of the last app of the file.
C14_TrendOfLastAppCount ==
    pc = "calculated" =>
        /\ Len(metrics.overall_occ_trend) = Len(apps_data)
        /\ \A i \in DOMAIN metrics.overall_occ_trend :
              LET n == Cardinality(CategoriesOf(apps_data[Len(apps_data)]))
              IN  /\ metrics.overall_occ_trend[i].den \in {1, i * n}
                  /\ InRange(metrics.overall_occ_trend[i])

(***************************************************************************)
(* C15: the header line is optional.  load_triple_data returns the same    *)
(* records for a file that starts with the header line and for the rest of *)
(* that file without it: the first line of a file without a header line is *)
(* not discarded.                                                          *)
(***************************************************************************)
StartsWithHeader(ls) == ls # <<>> /\ ls[1] = HeaderLine

C15_HeaderOptional ==
    (pc = "loaded" /\ StartsWithHeader(file)
                   /\ ~StartsWithHeader(Tail(file))) =>
        apps_data = load_triple_data(Tail(file))

\* What the code does instead: the file without its header line is read
\* alike when its own first line holds no comma.
C15_HeaderOptionalWithoutComma ==
    (pc = "loaded" /\ StartsWithHeader(file)
                   /\ (Tail(file) = <<>> \/ ~HasComma(Tail(file)[1]))) =>
        apps_data = load_triple_data(Tail(file))

(***************************************************************************)
(* C16: for every genre with at least 5 apps, the common_ratio reported by *)
(* prepare_genre_comparison_data is 100 * |intersection| / |union| of the  *)
(* sets of categories with status 1 on channel 1 of the app records of the *)
(* genre, every record counting, those of one app name included; it is 0   *)
(* when the union is empty.                                                *)
(***************************************************************************)
PresentOnChannelOne(app) ==
    {app.triples[i].permission :
        i \in {j \in DOMAIN app.triples :
                 app.triples[j].channel = "channel1"
                 /\ app.triples[j].status = 1}}

UnionOfGenre(apps, g) ==
    UNION {PresentOnChannelOne(apps[a]) :
              a \in {b \in DOMAIN apps : apps[b].genre = g}}

IntersectionOfGenre(apps, g) ==
    {p \in UnionOfGenre(apps, g) :
        \A a \in DOMAIN apps :
            apps[a].genre = g => p \in PresentOnChannelOne(apps[a])}

C16_CommonRatioOverRecords ==
    pc = "compared" =>
        \A n \in DOMAIN metrics.data :
            LET g == metrics.data[n].genre IN
            SameRatio(metrics.data[n].common_ratio,
                      Percent(Cardinality(IntersectionOfGenre(apps_data, g)),
                              Cardinality(UnionOfGenre(apps_data, g))))

\* What the code does instead: the ratio is right when the app records of
\* the genre that share a name have the same set.
SameNameSameSet(apps, g) ==
    \A a, b \in DOMAIN apps :
        (apps[a].genre = g /\ apps[b].genre = g
                           /\ apps[a].app_name = apps[b].app_name) =>
            PresentOnChannelOne(apps[a]) = PresentOnChannelOne(apps[b])

C16_CommonRatioOverNames ==
    pc = "compared" =>
        \A n \in DOMAIN metrics.data :
            LET g == metrics.data[n].genre IN
            SameNameSameSet(apps_data, g) =>
                SameRatio(metrics.data[n].common_ratio,
                          Percent(Cardinality(IntersectionOfGenre(apps_data, g)),
                                  Cardinality(UnionOfGenre(apps_data, g))))

(***************************************************************************)
(* C17: the ICA count of calculate_metrics is the number of triples whose  *)
(* status differs from the status most recently recorded for the same app, *)
(* category and channel; ica_ratio is that count divided by the number of  *)
(* all triples processed, times 100.                                       *)
(***************************************************************************)
\* The triples of the app before triple i with its category and channel.
EarlierOf(app, i) ==
    {j \in 1..(i - 1) :
        /\ app.triples[j].permission = app.triples[i].permission
        /\ app.triples[j].channel = app.triples[i].channel}

ChangesStatus(app, i) ==
    /\ EarlierOf(app, i) # {}
    /\ LET last == CHOOSE j \in EarlierOf(app, i) :
                       \A k \in EarlierOf(app, i) : k <= j
       IN  app.triples[last].status # app.triples[i].status

NumberChanging(apps) ==
    Cardinality({p \in AllTriples(apps) : ChangesStatus(apps[p[1]], p[2])})

C17_IcaCountsChanges ==
    pc = "calculated" =>
        /\ metrics.locals.ica_count = NumberChanging(apps_data)
        /\ metrics.ica_ratio =
              Percent(NumberChanging(apps_data),
                      Cardinality(AllTriples(apps_data)))

\* Camera on channel 1 is recorded as 1, then as 0, then as 0 again: the
\* second triple alone counts, 1 of 3.
C17_Witness ==
    /\ pc = "calculated"
    /\ apps_data = <<ParsedApp("A", "Game",
                        <<Triple("channel1", "Camera", 1),
                          Triple("channel1", "Camera", 0),
                          Triple("channel1", "Camera", 0)>>)>>
    /\ metrics.locals.ica_count = 1
    /\ metrics.ica_ratio = [num |-> 100, den |-> 3]

(***************************************************************************)
(* C18: the two scripts apply the same agreement rule.  The per-app        *)
(* consistency_ratio of analyze_channel_consistency is the app-level OCC   *)
(* of calculate_metrics for the same app, and triple_consistency_ratio is  *)
(* 100 * (consistent categories of all apps) / (categories of all apps),   *)
(* the genre OCC counts of calculate_metrics pooled over the genres.       *)
(***************************************************************************)
RECURSIVE SumOfGenres(_, _, _)
SumOfGenres(d, field, gs) ==
    IF gs = {} THEN 0
    ELSE LET g == CHOOSE x \in gs : TRUE IN
         d.val[g][field] + SumOfGenres(d, field, gs \ {g})

C18_SameAgreementRule ==
    pc = "consistency" =>
        LET m == calculate_metrics(apps_data) IN
        /\ Len(metrics.app_consistency) = Len(m.apps_occ)
        /\ \A i \in DOMAIN metrics.app_consistency :
              /\ metrics.app_consistency[i].consistency_ratio = m.apps_occ[i]
              /\ metrics.app_consistency[i].app_name = apps_data[i].app_name
        /\ metrics.triple_consistency_ratio =
              Percent(SumOfGenres(m.locals.genre_occ, "consistent", Genres),
                      SumOfGenres(m.locals.genre_occ, "count", Genres))

\* An app of genre Game whose one category is agreed and an app of genre
\* Tool whose one category is not: 100 and 0 by app, 50 overall.
C18_Witness ==
    /\ pc = "consistency"
    /\ Len(apps_data) = 2
    /\ apps_data[1].genre = "Game"
    /\ apps_data[2].genre = "Tool"
    /\ metrics.app_consistency =
          <<[app_name |-> "A", consistency_ratio |-> [num |-> 100, den |-> 1]],
            [app_name |-> "A", consistency_ratio |-> [num |-> 0, den |-> 1]]>>
    /\ metrics.triple_consistency_ratio = [num |-> 100, den |-> 2]

(***************************************************************************)
(* C19: every triple load_triple_data puts in an app record was read from  *)
(* that app's own block, after its name line and before the next name line *)
(* or separator; a triple line outside every block is attributed to no     *)
(* app; every returned record has a name, an id and a genre key.           *)
(***************************************************************************)
\* The triples of the block that the name line i opens.
BlockTriples(ls, i) ==
    LET inBlock == SelectSeq([j \in DOMAIN ls |-> j],
                             LAMBDA j : /\ i < j
                                        /\ j < BlockEnd(ls, i)
                                        /\ GoodTriple(ls[j]))
    IN  [n \in DOMAIN inBlock |-> ParsedTriple(ls[inBlock[n]].fields)]

FromBlock(ls, r, i) ==
    /\ ls[i].tag = "name"
    /\ r.app_name = Strip(ls[i].text)
    /\ Len(r.triples) <= Len(BlockTriples(ls, i))
    /\ \A n \in DOMAIN r.triples :
          \E k \in DOMAIN BlockTriples(ls, i) :
              r.triples[n] = BlockTriples(ls, i)[k]

C19_TriplesOfOwnBlock ==
    pc = "loaded" =>
        \A n \in DOMAIN apps_data :
            /\ {"app_name", "app_id", "genre"} \subseteq apps_data[n].keys
            /\ \E i \in DOMAIN SkipHeader(file) :
                  FromBlock(SkipHeader(file), apps_data[n], i)

\* What the reader does guarantee: every record holds at least one triple,
\* and the records hold together the triples of the triple lines read, each
\* once, inside a block or not.
TotalTriples(apps) == Cardinality(AllTriples(apps))

C19_TriplesOfSomeLine ==
    pc = "loaded" =>
        /\ \A n \in DOMAIN apps_data : apps_data[n].triples # <<>>
        /\ TotalTriples(apps_data) <=
              Cardinality({j \in DOMAIN SkipHeader(file) :
                              GoodTriple(SkipHeader(file)[j])})

(***************************************************************************)
(* C20: prepare_sankey_data returns 9 node labels and, for each distinct   *)
(* (channel 1, channel 2, channel 3) status path, two links whose value is *)
(* the path's count: the first from a channel-1 node (index 0..2) to a     *)
(* channel-2 node (index 3..5), the second from that channel-2 node to a   *)
(* channel-3 node (index 6..8), each node being the one labelled with its  *)
(* channel and the path's status on it.                                    *)
(***************************************************************************)
\* The status paths of the input: the (app, category) pairs read on the
\* three channels, with the last status of each channel.
PathPairs(apps) ==
    {q \in UNION {{<<a, p>> : p \in CategoriesOf(apps[a])} : a \in DOMAIN apps} :
        \A ch \in ChannelNames : EntryExists(apps[q[1]], q[2], ch)}

PathOf(apps, q) ==
    <<StatusOf(apps[q[1]], q[2], "channel1"),
      StatusOf(apps[q[1]], q[2], "channel2"),
      StatusOf(apps[q[1]], q[2], "channel3")>>

Paths(apps) == {PathOf(apps, q) : q \in PathPairs(apps)}

PathCount(apps, path) ==
    Cardinality({q \in PathPairs(apps) : PathOf(apps, q) = path})

\* Node index i (from 0) is the node of the channel with that status.
IsNode(labels, i, channel, status) ==
    /\ i + 1 \in DOMAIN labels
    /\ labels[i + 1] = [channel |-> channel, label |-> IntToStr(status)]

\* Links 2k-1 and 2k are the two links of the path.
LinksOfPath(d, k, path, count) ==
    /\ d.source[2 * k - 1] \in 0..2
    /\ d.target[2 * k - 1] \in 3..5
    /\ d.source[2 * k] = d.target[2 * k - 1]
    /\ d.target[2 * k] \in 6..8
    /\ IsNode(d.labels, d.source[2 * k - 1], "channel1", path[1])
    /\ IsNode(d.labels, d.target[2 * k - 1], "channel2", path[2])
    /\ IsNode(d.labels, d.target[2 * k], "channel3", path[3])
    /\ d.value[2 * k - 1] = count
    /\ d.value[2 * k] = count

SankeyLinks(d, apps) ==
    /\ Len(d.labels) = 9
    /\ Len(d.source) = 2 * Cardinality(Paths(apps))
    /\ Len(d.target) = Len(d.source)
    /\ Len(d.value) = Len(d.source)
    /\ \A path \in Paths(apps) :
          \E k \in 1..Cardinality(Paths(apps)) :
              LinksOfPath(d, k, path, PathCount(apps, path))

C20_LinksBetweenStages ==
    pc = "sankey" => SankeyLinks(metrics, apps_data)

\* What the code does instead: the links are right when every status of a
\* path is 0, 1 or -1.
C20_LinksOfKnownStatuses ==
    pc = "sankey" =>
        ((\A path \in Paths(apps_data) : \A n \in 1..3 : path[n] \in {-1, 0, 1})
            => SankeyLinks(metrics, apps_data))

====
